---- MODULE Spec2Model ----
(***************************************************************************)
(* A model of toy-dns-server (src/src/lib.rs, src/src/main.rs): the byte    *)
(* packet buffer, the name codec with compression pointers, the message    *)
(* decoder, the iterative resolver and the query handler.                  *)
(*                                                                         *)
(* Bytes are the integers 0..255, a buffer is a function on 0..511, a      *)
(* String is the sequence of its characters' code points, and a Result is  *)
(* a record whose err field is "None" for Ok, the error's name for Err and *)
(* "Panic" where the Rust code would panic on an index out of range.       *)
(***************************************************************************)
EXTENDS Integers, Sequences, FiniteSets, TLC

VARIABLES
    datagram,   \* the bytes socket.recv_from wrote into the buffer being decoded
    position,   \* BytePacketBuffer.position of that buffer
    qn,         \* read_qname: its locals, the name read so far, its outcome
    qstart,     \* the cursor at the call of read_qname
    dec,        \* DnsPacket::from_buffer: its progress, result and outcome
    pc,         \* where the server blocks: "recv" in handle_query's recv_from,
                \* "lookup" in lookup()'s recv_from; "exited" once main is left
    src,        \* handle_query: the sender of the request
    req_packet, \* handle_query: the request as decoded
    stack,      \* the calls of recursive_lookup in progress, innermost last
    reply,      \* <<the datagram lookup() received last>>, <<>> before any
    exchanges,  \* upstream queries sent for the request so far
    last,       \* the last call of handle_query that returned
    enc         \* a write into a BytePacketBuffer: what is written, the buffer,
                \* what the call returned and what is read back from the bytes

codec == <<position, qn, qstart, dec, enc>>

server == <<pc, src, req_packet, stack, reply, exchanges, last>>

vars == <<datagram, position, qn, qstart, dec,
          pc, src, req_packet, stack, reply, exchanges, last, enc>>

----------------------------------------------------------------------------
(* Program constants.                                                      *)

MAX_BUFFER_SIZE == 512

max_jumps == 5

(* Bounds of the model.                                                    *)

\* longest chain of compression pointers laid out in a name buffer
MaxChain == 7

\* most questions and records laid out after the header of a datagram
MaxItems == 2

\* deepest nesting of recursive_lookup calls
MaxDepth == 2

\* the count of upstream queries stops at this number
MaxExchanges == 3

----------------------------------------------------------------------------
(* Sequences of bytes.                                                     *)

\* the sequences of ss joined, by halves
RECURSIVE Concat(_)
Concat(ss) ==
    LET n == Len(ss)
        half == n \div 2
    IN  IF n = 0 THEN <<>>
        ELSE IF n = 1 THEN ss[1]
        ELSE Concat(SubSeq(ss, 1, half)) \o Concat(SubSeq(ss, half + 1, n))

\* what socket.recv_from leaves in a fresh BytePacketBuffer: the datagram,
\* then the zeros of BytePacketBuffer::default
Received(bytes) ==
    [i \in 0..(MAX_BUFFER_SIZE - 1) |->
        IF i < Len(bytes) THEN bytes[i + 1] ELSE 0]

\* String::from_utf8_lossy on one byte that is not part of a valid multi-byte
\* sequence: ASCII is kept, anything else becomes U+FFFD
from_utf8_lossy(bytes) ==
    [k \in 1..Len(bytes) |-> IF bytes[k] < 128 THEN bytes[k] ELSE 65533]

\* BytePacketBuffer.buffer of the buffer being decoded
buffer == Received(datagram)

to_lowercase(s) ==
    [k \in 1..Len(s) |-> IF s[k] \in 65..90 THEN s[k] + 32 ELSE s[k]]

----------------------------------------------------------------------------
(* BytePacketBuffer.                                                       *)

Ok(v) == [err |-> "None", val |-> v]
Err(e) == [err |-> e, val |-> 0]

\* self.buffer[i]: Rust panics when i is not an index of the array
Index(buf, i) ==
    IF i \in 0..(MAX_BUFFER_SIZE - 1) THEN Ok(buf[i]) ELSE Err("Panic")

\* &self.buffer[start..end]
Slice(buf, start, end) ==
    IF start <= end /\ end <= MAX_BUFFER_SIZE
    THEN Ok([k \in 1..(end - start) |-> buf[start + k - 1]])
    ELSE Err("Panic")

\* the bounds check of get left out
get_unchecked(buf, pos) == Index(buf, pos)

get(buf, pos) ==
    IF pos >= MAX_BUFFER_SIZE THEN Err("EndOfBuffer") ELSE Index(buf, pos)

get_range(buf, start, len) ==
    IF start + len >= MAX_BUFFER_SIZE
    THEN Err("EndOfBuffer")
    ELSE Slice(buf, start, start + len)

----------------------------------------------------------------------------
(* BytePacketBuffer::read_qname, one iteration of its loop at a time.      *)
(* s is [self_position, position, jumped, jump_performed, out, delim,      *)
(* status]; status is "run" inside the loop, "None" after Ok(()) and the   *)
(* error's name after an Err.                                              *)

qname_start(pos) ==
    [self_position |-> pos, position |-> pos, jumped |-> FALSE,
     jump_performed |-> 0, out |-> <<>>, delim |-> <<>>, status |-> "run"]

\* the cursor moved behind every pointer, not only behind the first
qname_jump_seeking_always(buf, s, len) ==
    LET seeked == s.position + 2
        b2 == get(buf, s.position + 1)
    IN  IF b2.err # "None"
        THEN [s EXCEPT !.self_position = seeked, !.status = b2.err]
        ELSE [s EXCEPT !.self_position = seeked,
                       !.position = ((len - 192) * 256) + b2.val,
                       !.jumped = TRUE,
                       !.jump_performed = s.jump_performed + 1]

qname_jump(buf, s, len) ==
    LET seeked == IF ~s.jumped THEN s.position + 2 ELSE s.self_position
        b2 == get(buf, s.position + 1)
    IN  IF b2.err # "None"
        THEN [s EXCEPT !.self_position = seeked, !.status = b2.err]
        ELSE [s EXCEPT !.self_position = seeked,
                       !.position = ((len - 192) * 256) + b2.val,
                       !.jumped = TRUE,
                       !.jump_performed = s.jump_performed + 1]

qname_label(buf, s, len) ==
    LET p1 == s.position + 1
        label == get_range(buf, p1, len)
    IN  IF len = 0
        THEN [s EXCEPT !.position = p1,
                       !.self_position = IF ~s.jumped THEN p1 ELSE @,
                       !.status = "None"]
        ELSE IF label.err # "None"
        THEN [s EXCEPT !.position = p1, !.status = label.err]
        ELSE [s EXCEPT !.position = p1 + len,
                       !.out = @ \o s.delim \o to_lowercase(from_utf8_lossy(label.val)),
                       !.delim = <<46>>]

\* the limit check made one jump too late
qname_loop_late(buf, s) ==
    IF s.jump_performed > max_jumps + 1
    THEN [s EXCEPT !.status = "LimitOfJumpsExceeded"]
    ELSE LET len == get(buf, s.position)
         IN  IF len.err # "None" THEN [s EXCEPT !.status = len.err]
             ELSE IF len.val >= 192 THEN qname_jump(buf, s, len.val)
             ELSE qname_label(buf, s, len.val)

\* the limit check made one jump too early
qname_loop_early(buf, s) ==
    IF s.jump_performed >= max_jumps
    THEN [s EXCEPT !.status = "LimitOfJumpsExceeded"]
    ELSE LET len == get(buf, s.position)
         IN  IF len.err # "None" THEN [s EXCEPT !.status = len.err]
             ELSE IF len.val >= 192 THEN qname_jump(buf, s, len.val)
             ELSE qname_label(buf, s, len.val)

qname_loop(buf, s) ==
    IF s.jump_performed > max_jumps
    THEN [s EXCEPT !.status = "LimitOfJumpsExceeded"]
    ELSE LET len == get(buf, s.position)
         IN  IF len.err # "None" THEN [s EXCEPT !.status = len.err]
             ELSE IF len.val >= 192 THEN qname_jump(buf, s, len.val)
             ELSE qname_label(buf, s, len.val)

RECURSIVE qname_run(_, _)
qname_run(buf, s) ==
    IF s.status # "run" THEN s ELSE qname_run(buf, qname_loop(buf, s))

\* the whole call: [err, val (the out string), position (self.position after)]
read_qname_result(s) ==
    [err |-> s.status, val |-> s.out, position |-> s.self_position]

\* the whole call: [err, val (the out string), position (self.position after)]
read_qname(buf, pos) == read_qname_result(qname_run(buf, qname_start(pos)))

----------------------------------------------------------------------------
(* Sequential reads. A read result is [err, val, position]: the value and  *)
(* the cursor after the call.                                              *)

read(buf, pos) ==
    IF pos >= MAX_BUFFER_SIZE
    THEN [err |-> "EndOfBuffer", val |-> 0, position |-> pos]
    ELSE LET b == Index(buf, pos)
         IN  [err |-> b.err, val |-> b.val, position |-> pos + 1]

\* n successive read() calls, the bytes joined big-endian; the first that
\* fails ends the call
RECURSIVE read_bytes(_, _, _, _)
read_bytes(buf, pos, n, acc) ==
    IF n = 0 THEN [err |-> "None", val |-> acc, position |-> pos]
    ELSE LET b == read(buf, pos)
         IN  IF b.err # "None" THEN b
             ELSE read_bytes(buf, b.position, n - 1, acc * 256 + b.val)

read_u16(buf, pos) == read_bytes(buf, pos, 2, 0)

\* a u32 is held as <<its high 16 bits, its low 16 bits>>, a u32 not
\* fitting TLC's signed 32-bit integers
u32_of(hi, lo) ==
    IF lo.err # "None" THEN lo
    ELSE [err |-> "None", val |-> <<hi.val, lo.val>>, position |-> lo.position]

u32_low(buf, hi) ==
    IF hi.err # "None" THEN hi
    ELSE u32_of(hi, read_bytes(buf, hi.position, 2, 0))

read_u32(buf, pos) == u32_low(buf, read_bytes(buf, pos, 2, 0))

\* successive read_u16 / read_u32 calls joined by `?`: widths[k] is 2 or 4,
\* val is the sequence of the values read
RECURSIVE read_fields(_, _, _, _)
RECURSIVE read_fields_next(_, _, _, _)
read_fields_next(buf, widths, acc, f) ==
    IF f.err # "None" THEN f
    ELSE read_fields(buf, f.position, Tail(widths), Append(acc, f.val))

read_fields(buf, pos, widths, acc) ==
    IF widths = <<>> THEN [err |-> "None", val |-> acc, position |-> pos]
    ELSE read_fields_next(buf, widths, acc,
                          IF Head(widths) = 2 THEN read_u16(buf, pos)
                          ELSE read_u32(buf, pos))

----------------------------------------------------------------------------
(* ResultCode, DnsHeader, QueryType, DnsQuestion, DnsRecord.               *)

ResultCode_from(num) ==
    CASE num = 1 -> "FormErr"
      [] num = 2 -> "ServFail"
      [] num = 3 -> "NxDomain"
      [] num = 4 -> "NotImp"
      [] num = 5 -> "Refused"
      [] OTHER -> "NoError"

ResultCode_as_u8(rescode) ==
    CASE rescode = "NoError" -> 0
      [] rescode = "FormErr" -> 1
      [] rescode = "ServFail" -> 2
      [] rescode = "NxDomain" -> 3
      [] rescode = "NotImp" -> 4
      [] rescode = "Refused" -> 5

\* (x & (1 << bit)) > 0
Bit(x, bit) == (x \div (2 ^ bit)) % 2 = 1

DnsHeader_new ==
    [id |-> 0, recursion_desired |-> FALSE, truncated_message |-> FALSE,
     authoritative_answer |-> FALSE, opcode |-> 0, response |-> FALSE,
     rescode |-> "NoError", checking_disabled |-> FALSE,
     authentic_data |-> FALSE, z |-> FALSE, recursion_available |-> FALSE,
     questions |-> 0, answers |-> 0, authoritative_entries |-> 0,
     resource_entries |-> 0]

\* DnsHeader::read; the header fields set before a failing read are lost
\* with the packet, so val is the header only on success
DnsHeader_of(f, a, b) ==
    IF f.err # "None" THEN f
        ELSE [err |-> "None", position |-> f.position,
              val |-> [id |-> f.val[1],
                       recursion_desired |-> Bit(a, 0),
                       truncated_message |-> Bit(a, 1),
                       authoritative_answer |-> Bit(a, 2),
                       opcode |-> (a \div 8) % 16,
                       response |-> Bit(a, 7),
                       rescode |-> ResultCode_from(b % 16),
                       checking_disabled |-> Bit(b, 4),
                       authentic_data |-> Bit(b, 5),
                       z |-> Bit(b, 6),
                       recursion_available |-> Bit(b, 7),
                       questions |-> f.val[3],
                       answers |-> f.val[4],
                       authoritative_entries |-> f.val[5],
                       resource_entries |-> f.val[6]]]

\* the two bytes of the flags
DnsHeader_flags(f) ==
    IF f.err # "None" THEN f
    ELSE DnsHeader_of(f, f.val[2] \div 256, f.val[2] % 256)

DnsHeader_read(buf, pos) ==
    DnsHeader_flags(read_fields(buf, pos, <<2, 2, 2, 2, 2, 2>>, <<>>))

\* a QueryType is <<"A">>, <<"Ns">>, <<"Cname">>, <<"Mx">>, <<"Aaaa">> or
\* <<"Unknown", num>>
QueryType_from(num) ==
    CASE num = 1 -> <<"A">>
      [] num = 2 -> <<"Ns">>
      [] num = 5 -> <<"Cname">>
      [] num = 15 -> <<"Mx">>
      [] num = 28 -> <<"Aaaa">>
      [] OTHER -> <<"Unknown", num>>

QueryType_into_u16(qtype) ==
    CASE qtype[1] = "A" -> 1
      [] qtype[1] = "Ns" -> 2
      [] qtype[1] = "Cname" -> 5
      [] qtype[1] = "Mx" -> 15
      [] qtype[1] = "Aaaa" -> 28
      [] qtype[1] = "Unknown" -> qtype[2]

DnsQuestion_of(name, f) ==
    IF f.err # "None" THEN f
    ELSE [err |-> "None", position |-> f.position,
          val |-> [name |-> name.val, qtype |-> QueryType_from(f.val[1])]]

DnsQuestion_fields(buf, name) ==
    IF name.err # "None" THEN name
    ELSE DnsQuestion_of(name, read_fields(buf, name.position, <<2, 2>>, <<>>))

DnsQuestion_read(buf, pos) == DnsQuestion_fields(buf, read_qname(buf, pos))

\* Ipv4Addr::new of the four octets of raw_addr
Ipv4Addr_new(raw_addr) ==
    <<(raw_addr[1] \div 256) % 256, raw_addr[1] % 256,
      (raw_addr[2] \div 256) % 256, raw_addr[2] % 256>>

\* Ipv6Addr::new of the eight segments of four u32
Ipv6Addr_new(raw) ==
    <<raw[1][1] % 65536, raw[1][2] % 65536, raw[2][1] % 65536, raw[2][2] % 65536,
      raw[3][1] % 65536, raw[3][2] % 65536, raw[4][1] % 65536, raw[4][2] % 65536>>

\* the match of DnsRecord::read, entered with the cursor after RDLENGTH
\* a read that failed, or the record made of what it read
DnsRecord_of(r, rec) ==
    IF r.err # "None" THEN r
    ELSE [err |-> "None", position |-> r.position, val |-> rec]

DnsRecord_A(raw_addr, domain, ttl) ==
    DnsRecord_of(raw_addr,
                 [type |-> "A", domain |-> domain,
                  addr |-> Ipv4Addr_new(raw_addr.val), ttl |-> ttl])

DnsRecord_host(host, type, domain, ttl) ==
    DnsRecord_of(host,
                 [type |-> type, domain |-> domain, host |-> host.val,
                  ttl |-> ttl])

DnsRecord_Mx_host(priority, mx, domain, ttl) ==
    DnsRecord_of(mx,
                 [type |-> "Mx", domain |-> domain, priority |-> priority.val,
                  host |-> mx.val, ttl |-> ttl])

DnsRecord_Mx(buf, priority, domain, ttl) ==
    IF priority.err # "None" THEN priority
    ELSE DnsRecord_Mx_host(priority, read_qname(buf, priority.position),
                           domain, ttl)

DnsRecord_Aaaa(raw, domain, ttl) ==
    DnsRecord_of(raw,
                 [type |-> "Aaaa", domain |-> domain,
                  addr |-> Ipv6Addr_new(raw.val), ttl |-> ttl])

\* the match of DnsRecord::read, entered with the cursor after RDLENGTH
DnsRecord_read_data(buf, pos, domain, qtype, qtype_num, ttl, data_len) ==
    CASE qtype[1] = "A" -> DnsRecord_A(read_u32(buf, pos), domain, ttl)
      [] qtype[1] \in {"Ns", "Cname"} ->
           DnsRecord_host(read_qname(buf, pos), qtype[1], domain, ttl)
      [] qtype[1] = "Mx" -> DnsRecord_Mx(buf, read_u16(buf, pos), domain, ttl)
      [] qtype[1] = "Aaaa" ->
           DnsRecord_Aaaa(read_fields(buf, pos, <<4, 4, 4, 4>>, <<>>), domain, ttl)
      [] qtype[1] = "Unknown" ->
           \* buffer.step(data_len)
           [err |-> "None", position |-> pos + data_len,
            val |-> [type |-> "Unknown", domain |-> domain, qtype |-> qtype_num,
                     data_len |-> data_len, ttl |-> ttl]]

DnsRecord_read_head(buf, domain, f) ==
    IF f.err # "None" THEN f
    ELSE DnsRecord_read_data(buf, f.position, domain.val,
                             QueryType_from(f.val[1]), f.val[1], f.val[3],
                             f.val[4])

DnsRecord_read_fields(buf, domain) ==
    IF domain.err # "None" THEN domain
    ELSE DnsRecord_read_head(buf, domain,
                             read_fields(buf, domain.position, <<2, 2, 4, 2>>, <<>>))

DnsRecord_read(buf, pos) == DnsRecord_read_fields(buf, read_qname(buf, pos))

----------------------------------------------------------------------------
(* DnsPacket::from_buffer, one read of its loops at a time. d is [status,  *)
(* position, result]: status is "header" before the header is read, "body" *)
(* inside the four loops, "None" after Ok(result), else the error's name.  *)

DnsPacket_new ==
    [header |-> DnsHeader_new, questions |-> <<>>, answers |-> <<>>,
     authorities |-> <<>>, resources |-> <<>>]

from_buffer_start(pos) ==
    [status |-> "header", position |-> pos, result |-> DnsPacket_new]

\* `?` on a read, then the push of what it read
from_buffer_push(d, r, section) ==
    IF r.err # "None"
    THEN [d EXCEPT !.status = r.err, !.position = r.position]
    ELSE [d EXCEPT !.position = r.position,
                   !.result[section] = Append(@, r.val)]

from_buffer_header(d, r) ==
    IF r.err # "None"
    THEN [d EXCEPT !.status = r.err, !.position = r.position]
    ELSE [d EXCEPT !.status = "body", !.position = r.position,
                   !.result.header = r.val]

\* the loop a record is read in
from_buffer_section(d) ==
    IF Len(d.result.answers) < d.result.header.answers THEN "answers"
    ELSE IF Len(d.result.authorities) < d.result.header.authoritative_entries
    THEN "authorities"
    ELSE IF Len(d.result.resources) < d.result.header.resource_entries
    THEN "resources"
    ELSE "None"

from_buffer_step(buf, d) ==
    IF d.status = "header"
    THEN from_buffer_header(d, DnsHeader_read(buf, d.position))
    ELSE IF Len(d.result.questions) < d.result.header.questions
    THEN from_buffer_push(d, DnsQuestion_read(buf, d.position), "questions")
    ELSE IF from_buffer_section(d) # "None"
    THEN from_buffer_push(d, DnsRecord_read(buf, d.position),
                          from_buffer_section(d))
    ELSE [d EXCEPT !.status = "None"]

RECURSIVE from_buffer_run(_, _)
from_buffer_run(buf, d) ==
    IF d.status \notin {"header", "body"} THEN d
    ELSE from_buffer_run(buf, from_buffer_step(buf, d))

\* the whole call on a buffer whose cursor is at 0: [err, val]
from_buffer_result(d) == [err |-> d.status, val |-> d.result]

\* the whole call on a buffer whose cursor is at 0: [err, val]
from_buffer(buf) == from_buffer_result(from_buffer_run(buf, from_buffer_start(0)))

----------------------------------------------------------------------------
(* Sequential writes into a fresh BytePacketBuffer. A write buffer w is    *)
(* [err, bytes]: bytes are the bytes written so far, its length is the     *)
(* cursor, and the rest of the 512 bytes is zero. Once err is not "None"   *)
(* the `?` of the caller has returned and later writes do nothing.         *)

BytePacketBuffer_new == [err |-> "None", bytes |-> <<>>]

write(w, value) ==
    IF w.err # "None" THEN w
    ELSE IF Len(w.bytes) >= MAX_BUFFER_SIZE THEN [w EXCEPT !.err = "EndOfBuffer"]
    ELSE [w EXCEPT !.bytes = Append(@, value)]

write_u8(w, value) == write(w, value)

write_u16(w, value) == write(write(w, (value \div 256) % 256), value % 256)

\* value is <<high 16 bits, low 16 bits>>
write_u32(w, value) == write_u16(write_u16(w, value[1]), value[2])

\* write_u8 of each byte in turn, each followed by `?`: the bytes that fit
\* are written and the first that does not fit fails
write_all(w, bytes) ==
    LET room == MAX_BUFFER_SIZE - Len(w.bytes)
    IN  IF w.err # "None" \/ bytes = <<>> THEN w
        ELSE IF Len(bytes) <= room THEN [w EXCEPT !.bytes = @ \o bytes]
        ELSE [err |-> "EndOfBuffer", bytes |-> w.bytes \o SubSeq(bytes, 1, room)]

\* self.buffer[pos] = value: Rust panics when pos is not an index
set(w, pos, value) ==
    IF w.err # "None" THEN w
    ELSE IF pos \notin 0..(MAX_BUFFER_SIZE - 1) THEN [w EXCEPT !.err = "Panic"]
    ELSE IF pos < Len(w.bytes) THEN [w EXCEPT !.bytes[pos + 1] = value]
    ELSE [w EXCEPT !.err = "Panic"]

set_u16(w, pos, value) ==
    set(set(w, pos, (value \div 256) % 256), pos + 1, value % 256)

\* str::split('.'): the pieces between the dots, one more than the dots
split(str) ==
    LET is_dot(i) == str[i] = 46
        dots == SelectSeq([i \in 1..Len(str) |-> i], is_dot)
        from(k) == IF k = 1 THEN 1 ELSE dots[k - 1] + 1
        to(k) == IF k = Len(dots) + 1 THEN Len(str) ELSE dots[k] - 1
    IN  [k \in 1..(Len(dots) + 1) |-> SubSeq(str, from(k), to(k))]

\* str::as_bytes: the UTF-8 bytes of a string of ASCII and U+FFFD
as_bytes(str) ==
    Concat([k \in 1..Len(str) |->
               IF str[k] < 128 THEN <<str[k]>> ELSE <<239, 191, 189>>])

RECURSIVE write_labels(_, _)
write_labels(w, labels) ==
    IF labels = <<>> \/ w.err # "None" THEN w
    ELSE LET bytes == as_bytes(Head(labels))
         IN  IF Len(bytes) > 63
             THEN [w EXCEPT !.err = "SingleLabelExceedsCharactersOfLength"]
             ELSE write_labels(write_all(write_u8(w, Len(bytes)), bytes),
                               Tail(labels))

write_qname(w, qname) == write_u8(write_labels(w, split(qname)), 0)

DnsHeader_write(w, h) ==
    LET bit(b) == IF b THEN 1 ELSE 0
        a == (bit(h.recursion_desired) + bit(h.truncated_message) * 2
              + bit(h.authoritative_answer) * 4 + ((h.opcode * 8) % 256)
              + bit(h.response) * 128) % 256
        b == ResultCode_as_u8(h.rescode) + bit(h.checking_disabled) * 16
             + bit(h.authentic_data) * 32 + bit(h.z) * 64
             + bit(h.recursion_available) * 128
        w1 == write_u8(write_u8(write_u16(w, h.id), a), b)
    IN  write_u16(write_u16(write_u16(write_u16(w1, h.questions), h.answers),
                            h.authoritative_entries), h.resource_entries)

DnsQuestion_write(w, q) ==
    write_u16(write_u16(write_qname(w, q.name), QueryType_into_u16(q.qtype)), 1)

\* the name, type, class and ttl every written record starts with
record_head(w, domain, qtype, ttl) ==
    write_u32(write_u16(write_u16(write_qname(w, domain),
                                  QueryType_into_u16(qtype)), 1), ttl)

\* the size measured from the placeholder, not from the RDATA behind it
patch_len_with_placeholder(w, pos) ==
    IF w.err # "None" THEN w ELSE set_u16(w, pos, Len(w.bytes) - pos)

\* set_u16(position, size): w is the buffer after the RDATA was written
\* behind the two placeholder bytes at pos
patch_len(w, pos) ==
    IF w.err # "None" THEN w ELSE set_u16(w, pos, Len(w.bytes) - (pos + 2))

\* DnsRecord::write: the buffer after it (the usize it returns is the
\* growth of the cursor)
DnsRecord_write_data(head, pos, r) ==
    CASE r.type = "A" ->
           write_all(write_u16(head, 4), r.addr)
      [] r.type \in {"Ns", "Cname"} ->
           patch_len(write_qname(write_u16(head, 0), r.host), pos)
      [] r.type = "Mx" ->
           patch_len(write_qname(write_u16(write_u16(head, 0), r.priority),
                                 r.host), pos)
      [] r.type = "Aaaa" ->
           write_all(write_u16(head, 16),
                     Concat([k \in 1..8 |-> <<(r.addr[k] \div 256) % 256,
                                              r.addr[k] % 256>>]))

\* RDLENGTH is written at the cursor the head ends at
DnsRecord_write_head(head, r) == DnsRecord_write_data(head, Len(head.bytes), r)

DnsRecord_write(w, r) ==
    IF r.type = "Unknown" THEN w
    ELSE DnsRecord_write_head(record_head(w, r.domain, <<r.type>>, r.ttl), r)

\* Ok(buffer.position - start_position) where w is the buffer at the call
\* and after the buffer at the return, or the error of the write that failed
DnsRecord_write_result(w, after) ==
    IF after.err # "None" THEN Err(after.err)
    ELSE Ok(Len(after.bytes) - Len(w.bytes))

RECURSIVE write_questions(_, _)
write_questions(w, questions) ==
    IF questions = <<>> \/ w.err # "None" THEN w
    ELSE write_questions(DnsQuestion_write(w, Head(questions)), Tail(questions))

RECURSIVE write_records(_, _)
write_records(w, records) ==
    IF records = <<>> \/ w.err # "None" THEN w
    ELSE write_records(DnsRecord_write(w, Head(records)), Tail(records))

\* the counter of the additional section left as the caller set it
reconciled_without_resources(p) ==
    [p.header EXCEPT !.questions = Len(p.questions) % 65536,
                     !.answers = Len(p.answers) % 65536,
                     !.authoritative_entries = Len(p.authorities) % 65536]

\* the header DnsPacket::write leaves in the packet
reconciled(p) ==
    [p.header EXCEPT !.questions = Len(p.questions) % 65536,
                     !.answers = Len(p.answers) % 65536,
                     !.authoritative_entries = Len(p.authorities) % 65536,
                     !.resource_entries = Len(p.resources) % 65536]

DnsPacket_write(w, p) ==
    LET w1 == DnsHeader_write(w, reconciled(p))
        w2 == write_questions(w1, p.questions)
        w3 == write_records(w2, p.answers)
        w4 == write_records(w3, p.authorities)
    IN  write_records(w4, p.resources)

----------------------------------------------------------------------------
(* DnsPacket's selectors. An Option is <<>> for None and <<v>> for Some(v). *)

ends_with(str, suffix) ==
    /\ Len(suffix) <= Len(str)
    /\ SubSeq(str, Len(str) - Len(suffix) + 1, Len(str)) = suffix

\* the last A answer instead of the first
get_random_a_last(p) ==
    LET is_a(r) == r.type = "A"
        found == SelectSeq(p.answers, is_a)
    IN  IF found = <<>> THEN <<>> ELSE <<found[Len(found)].addr>>

get_random_a(p) ==
    LET is_a(r) == r.type = "A"
        found == SelectSeq(p.answers, is_a)
    IN  IF found = <<>> THEN <<>> ELSE <<found[1].addr>>

\* the (domain, host) of the NS records of the authority section whose
\* domain qname ends with, in the section's order
get_ns(p, qname) ==
    LET matches(r) == r.type = "Ns" /\ ends_with(qname, r.domain)
        found == SelectSeq(p.authorities, matches)
    IN  [k \in 1..Len(found) |-> <<found[k].domain, found[k].host>>]

\* the addresses of the A records of the additional section named host
resolved_by(p, host) ==
    LET glue(r) == r.type = "A" /\ r.domain = host
        found == SelectSeq(p.resources, glue)
    IN  [k \in 1..Len(found) |-> found[k].addr]

\* the first A record of the additional section that names any matching NS
\* host: the additional section's order first, not the authority section's
get_resolved_ns_by_additional(p, qname) ==
    LET ns == get_ns(p, qname)
        hosts == {ns[k][2] : k \in 1..Len(ns)}
        glue(r) == r.type = "A" /\ r.domain \in hosts
        found == SelectSeq(p.resources, glue)
    IN  IF found = <<>> THEN <<>> ELSE <<found[1].addr>>

get_resolved_ns(p, qname) ==
    LET ns == get_ns(p, qname)
        addrs == Concat([k \in 1..Len(ns) |-> resolved_by(p, ns[k][2])])
    IN  IF addrs = <<>> THEN <<>> ELSE <<addrs[1]>>

get_unresolved_ns(p, qname) ==
    LET ns == get_ns(p, qname)
    IN  IF ns = <<>> THEN <<>> ELSE <<ns[1][2]>>

----------------------------------------------------------------------------
(* lookup and recursive_lookup. The calls of recursive_lookup in progress  *)
(* are a stack of frames [qname, qtype, ns, response], the innermost last; *)
(* response is the reply a frame holds while its nested lookup runs. The   *)
(* innermost frame waits in lookup() for the answer to the query it sent   *)
(* to (ns, 53). An operator that runs the resolver up to its next wait     *)
(* gives [stack, result]: the frames now waiting, or no frame and the      *)
(* Result the outermost call returned.                                     *)

\* "198.41.0.4".parse::<Ipv4Addr>().unwrap()
root_ns == <<198, 41, 0, 4>>

frame(qname, qtype) ==
    [qname |-> qname, qtype |-> qtype, ns |-> root_ns, response |-> DnsPacket_new]

\* let server = (ns_copy, 53): where a waiting call's query was sent
lookup_server(f) == <<f.ns, 53>>

\* lookup(), up to socket.send_to: the request it writes
lookup_request(qname, qtype) ==
    LET packet ==
            [DnsPacket_new EXCEPT
                !.header.id = 6666,
                !.header.questions = 1,
                !.header.recursion_desired = TRUE,
                !.questions = <<[name |-> qname, qtype |-> qtype]>>]
    IN  DnsPacket_write(BytePacketBuffer_new, packet)

\* the return for NxDomain left out
is_final_without_nxdomain(response) ==
    response.answers # <<>> /\ response.header.rescode = "NoError"

\* the two returns at the top of the loop
is_final(response) ==
    \/ response.answers # <<>> /\ response.header.rescode = "NoError"
    \/ response.header.rescode = "NxDomain"

RECURSIVE recursive_lookup_return(_, _)
RECURSIVE recursive_lookup_query(_)
RECURSIVE recursive_lookup_sent(_, _)

\* the innermost call enters lookup(): the request is written and sent, or
\* the write fails and `?` returns the error
recursive_lookup_sent(frames, w) ==
    IF w.err # "None"
    THEN recursive_lookup_return(frames, Err(w.err))
    ELSE [stack |-> frames, result |-> Err("Pending")]

recursive_lookup_query(frames) ==
    recursive_lookup_sent(frames,
                          lookup_request(frames[Len(frames)].qname,
                                         frames[Len(frames)].qtype))

\* the innermost call returns result to its caller: handle_query, or the
\* frame that called recursive_lookup(new_ns, QueryType::A)?
recursive_lookup_return(frames, result) ==
    LET rest == SubSeq(frames, 1, Len(frames) - 1)
        caller == rest[Len(rest)]
        new_ns == get_random_a(result.val)
    IN  IF rest = <<>> THEN [stack |-> <<>>, result |-> result]
        ELSE IF result.err # "None" THEN recursive_lookup_return(rest, result)
        ELSE IF new_ns # <<>>
        THEN recursive_lookup_query([rest EXCEPT ![Len(rest)].ns = new_ns[1]])
        ELSE recursive_lookup_return(rest, Ok(caller.response))

\* the loop body after lookup() returned Ok(response) to the innermost call
recursive_lookup_response(frames, response) ==
    LET n == Len(frames)
        qname == frames[n].qname
        resolved == get_resolved_ns(response, qname)
        unresolved == get_unresolved_ns(response, qname)
    IN  IF is_final(response) \/ (resolved = <<>> /\ unresolved = <<>>)
        THEN recursive_lookup_return(frames, Ok(response))
        ELSE recursive_lookup_query(
                 IF resolved # <<>>
                 THEN [frames EXCEPT ![n].ns = resolved[1]]
                 ELSE Append([frames EXCEPT ![n].response = response],
                             frame(unresolved[1], <<"A">>)))

\* lookup() after its send: the socket fails, or the datagram received is
\* decoded; received is <<>> for a socket error, else <<the datagram>>, and
\* response is from_buffer of the buffer that received it
lookup_reply(frames, received, response) ==
    IF received = <<>> \/ response.err # "None"
    THEN recursive_lookup_return(
             frames,
             Err(IF received = <<>> THEN "TransportError" ELSE response.err))
    ELSE recursive_lookup_response(frames, response.val)

----------------------------------------------------------------------------
(* handle_query.                                                           *)

\* FormErr and ServFail exchanged
response_packet_swapped(id, question, result) ==
    LET res_packet ==
            [DnsPacket_new EXCEPT !.header.id = id,
                                  !.header.recursion_desired = TRUE,
                                  !.header.recursion_available = TRUE,
                                  !.header.response = TRUE]
    IN  IF question = <<>>
        THEN [res_packet EXCEPT !.header.rescode = "ServFail"]
        ELSE IF result.err = "None"
        THEN [res_packet EXCEPT !.questions = <<question[1]>>,
                                !.header.rescode = result.val.header.rescode,
                                !.answers = result.val.answers,
                                !.authorities = result.val.authorities,
                                !.resources = result.val.resources]
        ELSE [res_packet EXCEPT !.header.rescode = "FormErr"]

\* the additional records of the result not copied
response_packet_without_resources(id, question, result) ==
    LET res_packet ==
            [DnsPacket_new EXCEPT !.header.id = id,
                                  !.header.recursion_desired = TRUE,
                                  !.header.recursion_available = TRUE,
                                  !.header.response = TRUE]
    IN  IF question = <<>>
        THEN [res_packet EXCEPT !.header.rescode = "FormErr"]
        ELSE IF result.err = "None"
        THEN [res_packet EXCEPT !.questions = <<question[1]>>,
                                !.header.rescode = result.val.header.rescode,
                                !.answers = result.val.answers,
                                !.authorities = result.val.authorities]
        ELSE [res_packet EXCEPT !.header.rescode = "ServFail"]

\* the response handle_query builds: question is <<>> when the request had
\* none, else <<the last one>>, and result is what recursive_lookup returned
response_packet(id, question, result) ==
    LET res_packet ==
            [DnsPacket_new EXCEPT !.header.id = id,
                                  !.header.recursion_desired = TRUE,
                                  !.header.recursion_available = TRUE,
                                  !.header.response = TRUE]
    IN  IF question = <<>>
        THEN [res_packet EXCEPT !.header.rescode = "FormErr"]
        ELSE IF result.err = "None"
        THEN [res_packet EXCEPT !.questions = <<question[1]>>,
                                !.header.rescode = result.val.header.rescode,
                                !.answers = result.val.answers,
                                !.authorities = result.val.authorities,
                                !.resources = result.val.resources]
        ELSE [res_packet EXCEPT !.header.rescode = "ServFail"]

\* the end of handle_query: write the response, take the bytes written with
\* get_range(0, position), send them; sends says whether send_to succeeds.
\* Gives [err, res_packet, sent]: what handle_query returns, the packet as
\* write left it, and the datagrams handed to send_to.
\* get_range(0, position) succeeded or failed, then send_to
respond_send(written, data, to, sends) ==
    IF data.err # "None"
    THEN [err |-> data.err, res_packet |-> written, sent |-> <<>>]
    ELSE [err |-> IF sends THEN "None" ELSE "TransportError",
          res_packet |-> written,
          sent |-> <<[to |-> to, data |-> data.val]>>]

\* w is the buffer after res_packet.write
respond_written(res_packet, w, to, sends) ==
    IF w.err # "None"
    THEN [err |-> w.err,
          res_packet |-> [res_packet EXCEPT !.header = reconciled(res_packet)],
          sent |-> <<>>]
    ELSE respond_send([res_packet EXCEPT !.header = reconciled(res_packet)],
                      get_range(Received(w.bytes), 0, Len(w.bytes)), to, sends)

respond(id, question, result, to, sends) ==
    respond_written(response_packet(id, question, result),
                    DnsPacket_write(BytePacketBuffer_new,
                                    response_packet(id, question, result)),
                    to, sends)

----------------------------------------------------------------------------
\* last while no call of handle_query has returned since the last request
NotReturned ==
    [done |-> FALSE, err |-> "None", request |-> Err("None"), src |-> "none",
     lookup |-> Err("NotCalled"), res_packet |-> DnsPacket_new, sent |-> <<>>,
     exchanges |-> 0]

\* enc while nothing is being written: op names the call ("qname" for
\* write_qname, "record" for DnsRecord::write, "packet" for DnsPacket::write),
\* stage is "input" before the call, "written" after it and "read" after the
\* bytes were decoded again; start is the cursor at the call, w the buffer,
\* size the usize DnsRecord::write returned, header the header the packet
\* is left with, back the result of the decoding
NotEncoding ==
    [op |-> "none", stage |-> "read", start |-> 0, qname |-> <<>>,
     record |-> [type |-> "Unknown", domain |-> <<>>, qtype |-> 0,
                 data_len |-> 0, ttl |-> <<0, 0>>],
     packet |-> DnsPacket_new, header |-> DnsHeader_new,
     w |-> BytePacketBuffer_new, size |-> Err("NotCalled"),
     back |-> Err("NotCalled")]

\* the server before its first request
Idle ==
    /\ pc = "recv"
    /\ src = "none"
    /\ req_packet = DnsPacket_new
    /\ stack = <<>>
    /\ reply = <<>>
    /\ exchanges = 0
    /\ last = NotReturned

----------------------------------------------------------------------------
(* The name decoder alone: read_qname on a buffer of pointers and labels.  *)

\* a pointer to offset: two bytes, the first with its top two bits set
Pointer(offset) == <<192 + (offset \div 256), offset % 256>>

\* 512 bytes: a pointer at offset 0 to a label that ends at byte stop - 1
\* and is followed by the root label at byte stop
TailLabel(stop) ==
    [i \in 1..MAX_BUFFER_SIZE |-> LET at == i - 1 IN
        CASE at = 0 -> 192 + ((stop - 4) \div 256)
          [] at = 1 -> (stop - 4) % 256
          [] at = stop - 4 -> 3
          [] at \in (stop - 3)..(stop - 1) -> 87
          [] OTHER -> 0]

\* chains of n pointers, the k-th at offset 2(k-1) pointing to the next,
\* and what they end in, and labels at the end of the buffer
QnameDatagrams ==
    { Concat([k \in 1..n |-> Pointer(2 * k)]) \o end :
        n \in 0..MaxChain,
        end \in
          { <<0>>,                      \* the root label
            <<1, 65, 0>>,               \* "A", read as "a"
            <<2, 97, 200, 1, 66, 0>>,   \* "a<U+FFFD>.b"
            <<64>>,                     \* top bits 01: a label of 64 octets
            <<128, 1>>,                 \* top bits 10: a label of 128 octets
            Pointer(0),                 \* back to the start of the buffer
            Pointer(511),               \* the last byte of the buffer
            Pointer(512),               \* just past the buffer
            Pointer(16383) } }          \* the largest offset a pointer holds
    \cup { TailLabel(stop) : stop \in 510..512 }

InitQname ==
    /\ datagram \in QnameDatagrams
    /\ position \in {0, 1, 2, 3, 511, 512}
    /\ qn = qname_start(position)
    /\ qstart = position
    /\ dec = from_buffer_start(0)
    /\ enc = NotEncoding
    /\ Idle

ReadQnameLoop ==
    /\ qn.status = "run"
    /\ qn' = qname_loop(buffer, qn)
    /\ position' = qn'.self_position
    /\ UNCHANGED <<datagram, qstart, dec, enc>>
    /\ UNCHANGED server

SpecQname == InitQname /\ [][ReadQnameLoop]_vars

----------------------------------------------------------------------------
(* Claims about the name decoder, checked under SpecQname.                 *)

\* The pointers of the name that starts at pos, counted up to most: the
\* wire format's reading of the bytes, a label being skipped and a pointer
\* followed, as far as both bytes of a pointer and all bytes of a label lie
\* inside the buffer.
RECURSIVE PointersInName(_, _, _)
PointersInName(buf, pos, most) ==
    IF most = 0 \/ pos + 1 >= MAX_BUFFER_SIZE THEN 0
    ELSE IF buf[pos] >= 192
    THEN 1 + PointersInName(buf, (buf[pos] - 192) * 256 + buf[pos + 1], most - 1)
    ELSE IF buf[pos] = 0 \/ pos + 1 + buf[pos] >= MAX_BUFFER_SIZE THEN 0
    ELSE PointersInName(buf, pos + 1 + buf[pos], most)

\* C2 as claimed: while read_qname decodes a name, the number of jumps it
\* has performed never exceeds 5.
C2_JumpsNeverExceedFive == qn.jump_performed <= max_jumps

\* C2 as amended: the number of jumps performed never exceeds 6, and once it
\* is 6 read_qname reads nothing more: it is about to fail, or has failed,
\* with LimitOfJumpsExceeded.
C2_JumpsAtMostSix ==
    /\ qn.jump_performed <= max_jumps + 1
    /\ qn.jump_performed = max_jumps + 1
         => /\ qn.status \in {"run", "LimitOfJumpsExceeded"}
            /\ qname_loop(buffer, qn).status = "LimitOfJumpsExceeded"

C2_Witness ==
    qn.jump_performed = max_jumps + 1 /\ qn.status = "LimitOfJumpsExceeded"

\* C3: a name whose pointer chain never ends (c0 00 at offset 0, read from
\* offset 0) fails with LimitOfJumpsExceeded, and read_qname fails with
\* LimitOfJumpsExceeded exactly when the name has more than 5 pointers.
C3_LimitOfJumps ==
    qn.status # "run" =>
        /\ (qstart = 0 /\ buffer[0] = 192 /\ buffer[1] = 0)
              => qn.status = "LimitOfJumpsExceeded"
        /\ qn.status = "LimitOfJumpsExceeded"
              <=> PointersInName(buffer, qstart, max_jumps + 1) > max_jumps

C3_Witness ==
    /\ qstart = 0 /\ buffer[0] = 192 /\ buffer[1] = 0
    /\ qn.status = "LimitOfJumpsExceeded"

----------------------------------------------------------------------------
(* The message decoder alone: from_buffer on a received datagram.          *)

U16(v) == <<(v \div 256) % 256, v % 256>>

U32(v) == U16(v[1]) \o U16(v[2])

QuestionBytes(name, qtype) == name \o U16(qtype) \o U16(1)

RecordBytes(name, qtype, ttl, data_len, data) ==
    name \o U16(qtype) \o U16(1) \o U32(ttl) \o U16(data_len) \o data

\* encoded names: "A", a pointer to the first byte after the header, a
\* pointer to the header's id, a length byte with top bits 01; the zeros
\* after the datagram are root names
DecodeNames == { <<1, 65, 0>>, Pointer(12), Pointer(0), <<64>> }

\* <<NAME, qtype, RDLENGTH, RDATA>>; the CNAME's host starts with a length
\* byte with top bits 10; after the header and a root name an RDLENGTH of
\* 489 leaves the cursor at 512; the second A record carries an RDLENGTH of
\* 6 and six bytes of RDATA
DecodeRecords ==
    { <<<<0>>, 1, 4, <<1, 2, 3, 4>>>>,
      <<<<0>>, 1, 6, <<1, 2, 3, 4, 5, 6>>>>,
      <<<<0>>, 2, 2, Pointer(12)>>,
      <<Pointer(12), 5, 1, <<128>>>>,
      <<<<0>>, 15, 5, <<0, 10, 1, 77, 0>>>>,
      <<<<0>>, 28, 16, Concat([k \in 1..8 |-> U16(k * 4369)])>>,
      <<<<0>>, 99, 2, <<7, 7>>>>,
      <<<<0>>, 99, 489, <<>>>>,
      <<<<0>>, 99, 65535, <<>>>> }

DecodeItems ==
    { QuestionBytes(n, 1) : n \in DecodeNames }
    \cup { RecordBytes(r[1], r[2], <<1, 300>>, r[3], r[4]) : r \in DecodeRecords }

RECURSIVE ItemSeqs(_)
ItemSeqs(n) ==
    IF n = 0 THEN {<<>>}
    ELSE ItemSeqs(n - 1)
         \cup { Append(b, i) : b \in ItemSeqs(n - 1), i \in DecodeItems }

\* h is <<id, flags>>; the bytes c0 00 of the id 49152 are a pointer to
\* itself. c is <<QDCOUNT, ANCOUNT, NSCOUNT, ARCOUNT>>.
DecodeDatagrams ==
    { U16(h[1]) \o U16(h[2]) \o Concat([k \in 1..4 |-> U16(c[k])]) \o Concat(b) :
        h \in { <<34346, 288>>, <<49152, 33155>> },
        c \in { <<0, 0, 0, 0>>, <<1, 0, 0, 0>>, <<1, 1, 0, 0>>, <<0, 1, 1, 1>>,
                <<2, 1, 0, 1>>, <<65535, 0, 0, 0>>,
                <<0, 65535, 65535, 65535>> },
        b \in ItemSeqs(MaxItems) }

InitDecode ==
    /\ datagram \in DecodeDatagrams
    /\ position = 0
    /\ dec = from_buffer_start(0)
    /\ qn = qname_start(0)
    /\ qstart = 0
    /\ enc = NotEncoding
    /\ Idle

FromBufferStep ==
    /\ dec.status \in {"header", "body"}
    /\ dec' = from_buffer_step(buffer, dec)
    /\ position' = dec'.position
    /\ UNCHANGED <<datagram, qn, qstart, enc>>
    /\ UNCHANGED server

SpecDecode == InitDecode /\ [][FromBufferStep]_vars

\* the questions and records read so far
ItemsRead(d) ==
    Len(d.result.questions) + Len(d.result.answers)
    + Len(d.result.authorities) + Len(d.result.resources)

\* C1: from_buffer ends with a message, EndOfBuffer or LimitOfJumpsExceeded
\* and never indexes the buffer out of range (a panic); it terminates, every
\* question or record read moving the cursor on by at least 5 of the 512
\* bytes a read can succeed in.
C1_DecodeIsBounded ==
    /\ dec.status \in {"header", "body", "None", "EndOfBuffer",
                        "LimitOfJumpsExceeded"}
    /\ dec.status # "header" => 12 + 5 * ItemsRead(dec) <= dec.position
    /\ ItemsRead(dec) <= 100
    /\ dec.status = "None" =>
          /\ Len(dec.result.questions) = dec.result.header.questions
          /\ Len(dec.result.answers) = dec.result.header.answers
          /\ Len(dec.result.authorities) = dec.result.header.authoritative_entries
          /\ Len(dec.result.resources) = dec.result.header.resource_entries

\* an Unknown record has moved the cursor past the end and the next read
\* has failed
C1_Witness ==
    /\ dec.status = "EndOfBuffer"
    /\ dec.position > MAX_BUFFER_SIZE
    /\ ItemsRead(dec) > 0

\* C23: after DnsRecord::read has read a record, of any type and with any
\* RDLENGTH, the cursor is RDLENGTH bytes behind the RDLENGTH field. The
\* field lies behind the owner, as it stands in place at the cursor (up to
\* its zero byte or its first pointer), the type, the class and the ttl.
C23_CursorAfterRdata ==
    [][/\ dec.status = "body" /\ dec'.status = "body"
       /\ Len(dec.result.questions) = dec.result.header.questions
       /\ ItemsRead(dec') = ItemsRead(dec) + 1
       => LET RECURSIVE NameInPlace(_)
              NameInPlace(pos) ==
                  IF pos >= MAX_BUFFER_SIZE THEN pos
                  ELSE IF buffer[pos] >= 192 THEN pos + 2
                  ELSE IF buffer[pos] = 0 THEN pos + 1
                  ELSE NameInPlace(pos + 1 + buffer[pos])
              at == NameInPlace(dec.position) + 8
          IN  dec'.position = at + 2 + buffer[at] * 256 + buffer[at + 1]]_vars

----------------------------------------------------------------------------
(* The server: main's loop over handle_query, with the clients' datagrams  *)
(* and the upstream servers' replies drawn from small sets.                *)

HeaderBytes(id, flags, counts) ==
    U16(id) \o U16(flags) \o Concat([k \in 1..4 |-> U16(counts[k])])

\* names: "a.b", "b", "n.b", "m.c", "z", "x"
name_ab == <<97, 46, 98>>
name_b == <<98>>
name_nb == <<110, 46, 98>>
name_mc == <<109, 46, 99>>
name_z == <<122>>

\* what clients send
RequestDatagrams ==
    { \* no question
      HeaderBytes(34346, 288, <<0, 0, 0, 0>>),
      \* no question, one answer record
      HeaderBytes(7, 288, <<0, 1, 0, 0>>)
          \o RecordBytes(<<1, 97, 0>>, 1, <<0, 60>>, 4, <<1, 2, 3, 4>>),
      \* one question: a.b A
      HeaderBytes(34346, 288, <<1, 0, 0, 0>>) \o QuestionBytes(<<1, 97, 1, 98, 0>>, 1),
      \* two questions: x MX, then A.b A with a pointer to the b of the first
      HeaderBytes(7, 288, <<2, 0, 0, 0>>)
          \o QuestionBytes(<<1, 120, 1, 98, 0>>, 15)
          \o QuestionBytes(<<1, 65>> \o Pointer(14), 1),
      \* one question, named by the zeros after the datagram: the root, type 0
      HeaderBytes(7, 288, <<1, 0, 0, 0>>),
      \* one question whose name has a label of 64 octets
      HeaderBytes(7, 288, <<1, 0, 0, 0>>) \o <<64>>,
      \* one question whose name is a pointer to itself
      HeaderBytes(7, 288, <<1, 0, 0, 0>>) \o QuestionBytes(Pointer(12), 1),
      \* two answers, the first with RDATA running past the buffer
      HeaderBytes(7, 288, <<1, 2, 0, 0>>)
          \o QuestionBytes(<<1, 97, 1, 98, 0>>, 1)
          \o RecordBytes(<<0>>, 99, <<0, 60>>, 65535, <<>>) }

A_record(domain, addr) ==
    [type |-> "A", domain |-> domain, addr |-> addr, ttl |-> <<0, 60>>]

NS_record(domain, host) ==
    [type |-> "Ns", domain |-> domain, host |-> host, ttl |-> <<0, 60>>]

CNAME_record(domain, host) ==
    [type |-> "Cname", domain |-> domain, host |-> host, ttl |-> <<0, 60>>]

Response(rescode, answers, authorities, resources) ==
    [DnsPacket_new EXCEPT !.header.id = 6666, !.header.response = TRUE,
                          !.header.rescode = rescode, !.answers = answers,
                          !.authorities = authorities, !.resources = resources]

\* what upstream servers answer
UpstreamPackets ==
    { \* answers
      Response("NoError", <<A_record(name_ab, <<9, 9, 9, 9>>)>>, <<>>, <<>>),
      Response("NoError", <<CNAME_record(name_ab, name_mc),
                            A_record(name_mc, <<8, 8, 8, 8>>),
                            A_record(name_mc, <<7, 7, 7, 7>>)>>, <<>>, <<>>),
      Response("NoError", <<CNAME_record(name_ab, name_mc)>>, <<>>, <<>>),
      \* failures
      Response("NxDomain", <<>>, <<NS_record(name_b, name_nb)>>,
               <<A_record(name_nb, <<1, 1, 1, 1>>)>>),
      Response("ServFail", <<A_record(name_ab, <<9, 9, 9, 9>>)>>, <<>>, <<>>),
      \* nothing
      Response("NoError", <<>>, <<>>, <<>>),
      \* referrals with glue
      Response("NoError", <<>>, <<NS_record(name_b, name_nb)>>,
               <<A_record(name_nb, <<1, 1, 1, 1>>)>>),
      Response("NoError", <<>>,
               <<NS_record(name_z, name_nb), NS_record(name_b, name_mc),
                 NS_record(name_b, name_nb)>>,
               <<A_record(name_nb, <<2, 2, 2, 2>>), A_record(name_z, <<4, 4, 4, 4>>),
                 A_record(name_mc, <<3, 3, 3, 3>>), A_record(name_mc, <<5, 5, 5, 5>>)>>),
      \* referrals without glue
      Response("NoError", <<>>, <<NS_record(name_b, name_nb)>>, <<>>),
      Response("Refused", <<>>,
               <<NS_record(name_z, name_nb), NS_record(<<>>, name_mc),
                 NS_record(name_b, name_nb)>>,
               <<A_record(name_z, <<4, 4, 4, 4>>)>>),
      \* a referral for another zone
      Response("NoError", <<>>, <<NS_record(name_z, name_nb)>>,
               <<A_record(name_nb, <<1, 1, 1, 1>>)>>) }

UpstreamReplies ==
    { <<DnsPacket_write(BytePacketBuffer_new, p).bytes>> : p \in UpstreamPackets }
    \cup { \* a reply whose question is a pointer to itself
           <<HeaderBytes(6666, 33024, <<1, 0, 0, 0>>) \o QuestionBytes(Pointer(12), 1)>>,
           \* an answer whose owner is one label of 64 octets: it is decoded,
           \* and no write_qname writes it
           <<HeaderBytes(6666, 33024, <<0, 1, 0, 0>>)
                 \o RecordBytes(<<64>> \o [i \in 1..64 |-> 97] \o <<0>>, 1,
                                <<0, 60>>, 4, <<1, 2, 3, 4>>)>>,
           \* an answer whose owner is a pointer to the name of the question
           <<HeaderBytes(6666, 33024, <<1, 1, 0, 0>>)
                 \o QuestionBytes(<<1, 97, 1, 98, 0>>, 1)
                 \o RecordBytes(Pointer(12), 1, <<0, 60>>, 4, <<9, 9, 9, 9>>)>>,
           \* two answers whose owners are pointers to the name of the
           \* question, four labels of 63 octets: 305 bytes, and 271 bytes
           \* for each answer with its owner written out
           <<HeaderBytes(6666, 33024, <<1, 2, 0, 0>>)
                 \o QuestionBytes(
                        Concat([k \in 1..4 |-> <<63>> \o [i \in 1..63 |-> 97]])
                            \o <<0>>, 1)
                 \o RecordBytes(Pointer(12), 1, <<0, 60>>, 4, <<9, 9, 9, 9>>)
                 \o RecordBytes(Pointer(12), 1, <<0, 60>>, 4, <<8, 8, 8, 8>>)>>,
           \* one answer of 491 bytes, its owner seven labels of 63 octets
           \* and one of 27: with the header and the question a.b A the
           \* response is 512 bytes
           <<HeaderBytes(6666, 33024, <<0, 1, 0, 0>>)
                 \o RecordBytes(
                        Concat([k \in 1..7 |-> <<63>> \o [i \in 1..63 |-> 97]])
                            \o <<27>> \o [i \in 1..27 |-> 97] \o <<0>>,
                        1, <<0, 60>>, 4, <<9, 9, 9, 9>>)>>,
           \* the socket fails
           <<>> }

\* DnsPacket::from_buffer(&mut res_buffer) of lookup(), for each reply
Decoded ==
    [u \in UpstreamReplies |->
        IF u = <<>> THEN Err("TransportError") ELSE from_buffer(Received(u[1]))]

\* DnsPacket::from_buffer(&mut req_buffer) of handle_query, for each request
DecodedRequest == [d \in RequestDatagrams |-> from_buffer(Received(d))]

Init ==
    /\ datagram = <<>>
    /\ position = 0
    /\ qn = qname_start(0)
    /\ qstart = 0
    /\ dec = from_buffer_start(0)
    /\ enc = NotEncoding
    /\ Idle

\* an Err of handle_query propagated out of main, as by handle_query(&socket)?
main_loop_propagating(err) == IF err = "None" THEN "recv" ELSE "exited"

\* the body of main's loop after handle_query returned: an Err is printed and
\* the loop calls handle_query again; a panic unwinds out of main
main_loop(err) == IF err = "Panic" THEN "exited" ELSE "recv"

\* handle_query returns: the loop of main calls it again
Returned(request, from, lookup, r, sent_queries) ==
    /\ pc' = main_loop(r.err)
    /\ stack' = <<>>
    /\ exchanges' = sent_queries
    /\ last' = [done |-> TRUE, err |-> r.err, request |-> request, src |-> from,
                lookup |-> lookup, res_packet |-> r.res_packet, sent |-> r.sent,
                exchanges |-> sent_queries]

\* socket.recv_from(&mut req_buffer.buffer)? fails
HandleQueryRecvFails ==
    /\ pc = "recv"
    /\ pc' = main_loop("TransportError")
    /\ last' = [done |-> TRUE, err |-> "TransportError", request |-> Err("TransportError"),
                src |-> "none", lookup |-> Err("NotCalled"),
                res_packet |-> DnsPacket_new, sent |-> <<>>, exchanges |-> 0]
    /\ datagram' = <<>>
    /\ src' = "none"
    /\ req_packet' = DnsPacket_new
    /\ reply' = <<>>
    /\ UNCHANGED <<stack, exchanges>>
    /\ UNCHANGED codec

\* recursive_lookup has run to the recv_from of its first lookup(), or has
\* returned without sending a query
HandleQueryLookup(packet, question, from, sends, started) ==
    IF started.stack = <<>>
    THEN Returned(Ok(packet), from, started.result,
                  respond(packet.header.id, question, started.result, from, sends),
                  0)
    ELSE /\ pc' = "lookup"
         /\ stack' = started.stack
         /\ exchanges' = 1
         /\ last' = NotReturned

\* req_packet.questions.pop(): question is <<>> or <<the last question>>
HandleQueryPop(packet, question, from, sends) ==
    IF question = <<>>
    THEN Returned(Ok(packet), from, Err("NotCalled"),
                  respond(packet.header.id, question, Err("NotCalled"), from, sends),
                  0)
    ELSE HandleQueryLookup(packet, question, from, sends,
                           recursive_lookup_query(
                               <<frame(question[1].name, question[1].qtype)>>))

\* DnsPacket::from_buffer(&mut req_buffer)? gave request
HandleQueryDecoded(request, from, sends) ==
    IF request.err # "None"
    THEN /\ req_packet' = DnsPacket_new
         /\ Returned(Err(request.err), from, Err("NotCalled"),
                     [err |-> request.err, res_packet |-> DnsPacket_new,
                      sent |-> <<>>], 0)
    ELSE /\ req_packet' = request.val
         /\ HandleQueryPop(request.val,
                           IF request.val.questions = <<>> THEN <<>>
                           ELSE <<request.val.questions[Len(request.val.questions)]>>,
                           from, sends)

\* handle_query from its recv_from to the recv_from of the first lookup(),
\* or to its return when no query is sent
HandleQueryRecv ==
    /\ pc = "recv"
    /\ \E d \in RequestDatagrams, from \in {"client1", "client2"}, sends \in BOOLEAN :
          /\ datagram' = d
          /\ src' = from
          /\ reply' = <<>>
          /\ HandleQueryDecoded(DecodedRequest[d], from, sends)
    /\ UNCHANGED codec

\* recursive_lookup has run on to r: the next lookup(), or its return to
\* handle_query, which runs to its end
LookupReturned(r, sends) ==
    /\ Len(r.stack) <= MaxDepth
    /\ IF r.stack = <<>>
       THEN Returned(Ok(req_packet), src, r.result,
                     respond(req_packet.header.id,
                             <<req_packet.questions[Len(req_packet.questions)]>>,
                             r.result, src, sends),
                     exchanges)
       ELSE /\ pc' = "lookup"
            /\ stack' = r.stack
            /\ exchanges' = IF exchanges < MaxExchanges THEN exchanges + 1 ELSE exchanges
            /\ UNCHANGED last

\* lookup() returns from its recv_from
UpstreamReply ==
    /\ pc = "lookup"
    /\ \E received \in UpstreamReplies, sends \in BOOLEAN :
          /\ reply' = received
          /\ LookupReturned(lookup_reply(stack, received, Decoded[received]), sends)
    /\ UNCHANGED <<datagram, src, req_packet>>
    /\ UNCHANGED codec

Next == HandleQueryRecvFails \/ HandleQueryRecv \/ UpstreamReply

Spec == Init /\ [][Next]_vars

\* every lookup() returns: recv_from in lookup() returns, with a datagram or
\* with an error, and no upstream query is left waiting for ever
SpecFair == Spec /\ WF_reply(pc = "lookup" /\ reply' \in UpstreamReplies)

----------------------------------------------------------------------------
(* Claims about the resolver and the query handler, checked under Spec.    *)
(* A step that leaves pc = "lookup" is lookup() returning: reply' is what  *)
(* it received, and the innermost frame of stack is the call it returns to. *)

\* the wire's reading of a response: it ends the resolution
Final(r) ==
    \/ Len(r.answers) >= 1 /\ r.header.rescode = "NoError"
    \/ r.header.rescode = "NxDomain"

\* the authority records that delegate qname, by index
Delegations(r, qname) ==
    { i \in 1..Len(r.authorities) :
        /\ r.authorities[i].type = "Ns"
        /\ ends_with(qname, r.authorities[i].domain) }

\* the (NS, A) pairs of a response that resolve a nameserver for qname
GluePairs(r, qname) ==
    { ij \in Delegations(r, qname) \X (1..Len(r.resources)) :
        /\ r.resources[ij[2]].type = "A"
        /\ r.resources[ij[2]].domain = r.authorities[ij[1]].host }

\* the first of them, NS records in authority order and for each NS the A
\* records in additional order
FirstGlue(r, qname) ==
    CHOOSE ij \in GluePairs(r, qname) :
        \A kl \in GluePairs(r, qname) :
            ij[1] < kl[1] \/ (ij[1] = kl[1] /\ ij[2] <= kl[2])

FirstDelegation(r, qname) ==
    CHOOSE i \in Delegations(r, qname) : \A k \in Delegations(r, qname) : i <= k

AAnswers(r) == { i \in 1..Len(r.answers) : r.answers[i].type = "A" }

FirstAAnswer(r) ==
    r.answers[CHOOSE i \in AAnswers(r) : \A k \in AAnswers(r) : i <= k].addr

\* a call's result is the response r
Gives(result, r) == result.err = "None" /\ result.val = r

\* lookup() returns a decoded response to the innermost call
Replied == pc = "lookup" /\ Decoded[reply'].err = "None"

\* C4: a response with an answer and NoError, or with NxDomain, is returned
\* unchanged by the call that received it, with no further exchange; when it
\* is the reply to the first query, one exchange was made.
C4_FinalResponseReturned ==
    [][ LET r == Decoded[reply'].val
        IN  Replied /\ Final(r) =>
              /\ Len(stack') < Len(stack)
              /\ Len(stack) = 1 =>
                    /\ pc' = "recv"
                    /\ Gives(last'.lookup, r)
                    /\ last'.exchanges = exchanges ]_vars

C4_Witness ==
    /\ pc = "recv" /\ last.done /\ reply # <<>>
    /\ Decoded[reply].err = "None"
    /\ Gives(last.lookup, Decoded[reply].val)
    /\ Final(last.lookup.val)
    /\ last.lookup.val.header.rescode = "NxDomain"
    /\ last.exchanges = 1

\* C5: after a response that is not final and has glue for a nameserver of
\* qname, the same call sends its next query, for the same qname and qtype,
\* to port 53 of the address of the first (NS, A) pair, and no nested lookup
\* is started.
C5_GlueFollowed ==
    [][ LET r == Decoded[reply'].val
            n == Len(stack)
            qname == stack[n].qname
            a == r.resources[FirstGlue(r, qname)[2]].addr
        IN  Replied /\ ~Final(r) /\ GluePairs(r, qname) # {} =>
              /\ pc' = "lookup"
              /\ stack' = [stack EXCEPT ![n].ns = a]
              /\ lookup_server(stack'[n]) = <<a, 53>>
              /\ exchanges' = IF exchanges < MaxExchanges THEN exchanges + 1 ELSE exchanges ]_vars

\* a referral with several pairs has been followed to its first pair
C5_Witness ==
    /\ pc = "lookup" /\ reply # <<>> /\ Decoded[reply].err = "None"
    /\ LET r == Decoded[reply].val
           top == stack[Len(stack)]
       IN  /\ ~Final(r)
           /\ Cardinality(GluePairs(r, top.qname)) > 1
           /\ FirstGlue(r, top.qname)[2] > 1
           /\ top.ns = r.resources[FirstGlue(r, top.qname)[2]].addr
           /\ exchanges = 2

\* C6: after a response that is not final, has nameservers for qname and no
\* glue for any of them, the call starts recursive_lookup(first such host, A)
\* before any other query; when a nested call returns a result with an A
\* answer its caller queries the first such address next, and when the
\* result has none the caller returns the response it held; a call whose
\* response has no nameserver for qname returns that response.
C6_GluelessReferral ==
    [][ LET r == Decoded[reply'].val
            n == Len(stack)
            qname == stack[n].qname
            host == r.authorities[FirstDelegation(r, qname)].host
            returns == Final(r) \/ Delegations(r, qname) = {}
        IN  Replied =>
              /\ ~Final(r) /\ Delegations(r, qname) # {} /\ GluePairs(r, qname) = {}
                    => /\ pc' = "lookup"
                       /\ stack' = Append([stack EXCEPT ![n].response = r],
                                          frame(host, <<"A">>))
              /\ returns /\ n >= 2 /\ AAnswers(r) # {}
                    => /\ pc' = "lookup"
                       /\ stack' = [SubSeq(stack, 1, n - 1) EXCEPT
                                       ![n - 1].ns = FirstAAnswer(r)]
              /\ returns /\ n >= 2 /\ AAnswers(r) = {}
                    => /\ Len(stack') < n - 1
                       /\ n = 2 => Gives(last'.lookup, stack[1].response)
              /\ returns /\ n = 1 => pc' = "recv" /\ Gives(last'.lookup, r) ]_vars

\* a nested lookup has returned several A answers and its caller has sent
\* its next query to the first
C6_Witness ==
    /\ pc = "lookup" /\ Len(stack) = 1 /\ reply # <<>>
    /\ Decoded[reply].err = "None"
    /\ Cardinality(AAnswers(Decoded[reply].val)) > 1
    /\ Decoded[reply].val.answers[1].type # "A"
    /\ stack[1].ns = FirstAAnswer(Decoded[reply].val)
    /\ Delegations(stack[1].response, stack[1].qname) # {}

\* C7 as claimed: when every upstream query is answered, recursive_lookup
\* returns.
C7_LookupReturns == (pc = "lookup") ~> (pc = "recv")

\* C8 as claimed: a request that cannot be decoded is answered with ServFail.
C8_UndecodableAnswered ==
    last.done /\ last.request.err \in {"EndOfBuffer", "LimitOfJumpsExceeded"}
        => /\ Len(last.sent) = 1
           /\ last.res_packet.header.rescode = "ServFail"

\* the last question of the request handle_query last returned from
LastQuestion == last.request.val.questions[Len(last.request.val.questions)]

\* C9 as claimed: the response to a request with questions has exactly one
\* question, the last of the request, also when resolution failed.
C9_LastQuestionEchoed ==
    /\ last.done /\ last.request.err = "None"
    /\ last.request.val.questions # <<>>
    /\ last.sent # <<>>
    => last.res_packet.questions = <<LastQuestion>>

\* C10: for a request without questions no upstream query is sent, and one
\* response is sent, to the sender: FormErr, the request's id, no question,
\* answer, authority or additional, in the packet and on the wire.
C10_NoQuestionFormErr ==
    last.done /\ last.request.err = "None" /\ last.request.val.questions = <<>>
        => /\ last.exchanges = 0
           /\ last.lookup = Err("NotCalled")
           /\ Len(last.sent) = 1
           /\ last.sent[1].to = last.src
           /\ LET wire == from_buffer(Received(last.sent[1].data))
              IN  /\ Len(last.sent[1].data) = 12
                  /\ wire.err = "None"
                  /\ wire.val.header.id = last.request.val.header.id
                  /\ wire.val.header.rescode = "FormErr"
                  /\ wire.val.header.response
                  /\ wire.val.questions = <<>> /\ wire.val.answers = <<>>
                  /\ wire.val.authorities = <<>> /\ wire.val.resources = <<>>
                  /\ wire.val = last.res_packet

\* a request with no question and one answer record has been answered
C10_Witness ==
    /\ last.done /\ last.request.err = "None"
    /\ last.request.val.questions = <<>>
    /\ last.request.val.answers # <<>>
    /\ Len(last.sent) = 1
    /\ last.res_packet.header.rescode = "FormErr"

\* C11: for a request with a question, the response has the rescode,
\* answers, authorities and additionals of the resolver's result when there
\* is one; when the resolver failed, one response is sent to the sender,
\* with ServFail and no answer, authority or additional, in the packet and
\* on the wire.
C11_ResultCopiedOrServFail ==
    /\ last.done /\ last.request.err = "None"
    /\ last.request.val.questions # <<>>
    => IF last.lookup.err = "None"
       THEN /\ last.res_packet.header.rescode = last.lookup.val.header.rescode
            /\ last.res_packet.answers = last.lookup.val.answers
            /\ last.res_packet.authorities = last.lookup.val.authorities
            /\ last.res_packet.resources = last.lookup.val.resources
       ELSE /\ last.res_packet.header.rescode = "ServFail"
            /\ last.res_packet.answers = <<>>
            /\ last.res_packet.authorities = <<>>
            /\ last.res_packet.resources = <<>>
            /\ Len(last.sent) = 1
            /\ last.sent[1].to = last.src
            /\ LET wire == from_buffer(Received(last.sent[1].data))
               IN  /\ wire.err = "None"
                   /\ wire.val.header.rescode = "ServFail"
                   /\ wire.val.header.id = last.request.val.header.id
                   /\ wire.val.answers = <<>>
                   /\ wire.val.authorities = <<>>
                   /\ wire.val.resources = <<>>

\* the reply to a later query of a resolution could not be decoded, and the
\* client was sent ServFail
C11_Witness ==
    /\ last.done /\ last.request.err = "None"
    /\ last.lookup.err = "LimitOfJumpsExceeded"
    /\ last.exchanges >= 2
    /\ Len(last.sent) = 1
    /\ last.res_packet.header.rescode = "ServFail"

----------------------------------------------------------------------------
(* The writers alone: write_qname, DnsRecord::write and DnsPacket::write   *)
(* on a buffer whose cursor is at start, and the readers on the bytes they *)
(* wrote.                                                                  *)

\* BytePacketBuffer::new() followed by seek(pos)
BytePacketBuffer_at(pos) == [err |-> "None", bytes |-> [i \in 1..pos |-> 0]]

\* a label of n octets, all the letter c
Label(n, c) == [i \in 1..n |-> c]

\* the names written: code points, 46 is the dot
EncodeQnames ==
    { <<>>,                           \* "", the root
      <<97>>,                         \* "a"
      <<65, 46, 98>>,                 \* "A.b"
      <<119, 119, 46, 69, 120, 46, 67, 79, 77>>,   \* "ww.Ex.COM"
      <<97, 46>>,                     \* "a.", a trailing dot
      <<97, 46, 46, 98>>,             \* "a..b", two consecutive dots
      <<46, 98>>,                     \* ".b", a leading dot
      <<46>>,                         \* "."
      Label(63, 120),                 \* the longest label
      Label(63, 88) \o <<46, 98>>,    \* the longest label in capitals, then "b"
      Label(64, 120) }                \* a label one octet too long

MX_record(domain, priority, host) ==
    [type |-> "Mx", domain |-> domain, priority |-> priority, host |-> host,
     ttl |-> <<0, 60>>]

AAAA_record(domain, addr) ==
    [type |-> "Aaaa", domain |-> domain, addr |-> addr, ttl |-> <<1, 60>>]

\* the records written; <<65, 46, 98>> is "A.b", <<78, 115, 46, 98>> "Ns.b"
\* and <<109, 120, 46, 98>> "mx.b"
EncodeRecords ==
    { A_record(name_ab, <<1, 2, 3, 4>>),
      AAAA_record(<<65, 46, 98>>, <<8193, 3512, 0, 0, 0, 0, 65535, 1>>),
      NS_record(name_b, <<78, 115, 46, 98>>),
      NS_record(<<>>, <<>>),
      NS_record(name_b, Label(63, 110) \o <<46>> \o Label(63, 115)),
      NS_record(name_b, Label(64, 110)),
      CNAME_record(<<65, 46, 98>>, name_mc),
      CNAME_record(name_ab, <<109, 46, 46, 99>>),
      MX_record(name_b, 10, <<109, 120, 46, 98>>),
      MX_record(<<>>, 65535, <<>>),
      [type |-> "Unknown", domain |-> name_ab, qtype |-> 99, data_len |-> 0,
       ttl |-> <<0, 60>>] }

\* the packets written: each choice of header counters with each choice of
\* <<questions, answers, authorities, resources>>
EncodePackets ==
    { [header |-> [DnsHeader_new EXCEPT
                      !.id = 4660, !.recursion_desired = TRUE, !.opcode = 2,
                      !.response = TRUE, !.rescode = "NxDomain",
                      !.authentic_data = TRUE,
                      !.questions = c[1], !.answers = c[2],
                      !.authoritative_entries = c[3],
                      !.resource_entries = c[4]],
       questions |-> b[1], answers |-> b[2], authorities |-> b[3],
       resources |-> b[4]] :
        c \in { <<0, 0, 0, 0>>, <<1, 1, 1, 1>>, <<7, 0, 65535, 3>> },
        b \in
          { <<<<>>, <<>>, <<>>, <<>>>>,
            <<<<[name |-> name_ab, qtype |-> <<"A">>]>>, <<>>, <<>>, <<>>>>,
            <<<<[name |-> <<65, 46, 98>>, qtype |-> <<"Mx">>]>>,
              <<MX_record(<<65, 46, 98>>, 10, <<109, 120, 46, 98>>),
                A_record(<<109, 120, 46, 98>>, <<1, 2, 3, 4>>)>>,
              <<NS_record(name_b, <<78, 115, 46, 98>>)>>,
              <<AAAA_record(<<78, 115, 46, 98>>,
                            <<8193, 3512, 0, 0, 0, 0, 65535, 1>>),
                CNAME_record(<<65, 46, 98>>, name_mc)>>>>,
            <<<<[name |-> name_ab, qtype |-> <<"A">>],
                [name |-> name_b, qtype |-> <<"Unknown", 99>>]>>,
              <<>>, <<>>, <<A_record(name_ab, <<1, 2, 3, 4>>)>>>>,
            \* the root as the name of a question
            <<<<[name |-> <<>>, qtype |-> <<"Ns">>]>>, <<>>, <<>>, <<>>>>,
            \* the root as the owner of a record
            <<<<[name |-> name_b, qtype |-> <<"Ns">>]>>, <<>>,
              <<NS_record(<<>>, <<78, 115, 46, 98>>)>>, <<>>>>,
            \* the root as the host of a record
            <<<<>>, <<MX_record(name_b, 0, <<>>)>>, <<>>, <<>>>>,
            \* a record of unknown type
            <<<<[name |-> name_ab, qtype |-> <<"A">>]>>,
              <<[type |-> "Unknown", domain |-> name_ab, qtype |-> 99,
                 data_len |-> 0, ttl |-> <<0, 60>>],
                A_record(name_ab, <<1, 2, 3, 4>>)>>,
              <<>>, <<>>>>,
            \* more than 512 bytes
            <<<<[name |-> name_ab, qtype |-> <<"A">>]>>,
              [k \in 1..4 |-> NS_record(name_b, Label(63, 110) \o <<46>>
                                                    \o Label(63, 115))],
              <<>>, <<>>>> } }

\* a name, a record or a packet to write: names and records at cursors from
\* the start to the end of the buffer, packets on a new buffer
InitEncode ==
    /\ datagram = <<>>
    /\ position = 0
    /\ qn = qname_start(0)
    /\ qstart = 0
    /\ dec = from_buffer_start(0)
    /\ enc \in
         { [NotEncoding EXCEPT !.op = "qname", !.stage = "input",
                               !.start = at, !.qname = name] :
             name \in EncodeQnames,
             at \in {0, 12, 446, 447, 508, 509, 510, 511, 512} }
         \cup
         { [NotEncoding EXCEPT !.op = "record", !.stage = "input",
                               !.start = at, !.record = r] :
             r \in EncodeRecords,
             at \in {0, 12, 491, 493, 497, 499, 500, 512} }
         \cup
         { [NotEncoding EXCEPT !.op = "packet", !.stage = "input",
                               !.packet = m, !.header = m.header] :
             m \in EncodePackets }
    /\ Idle

\* buffer.write_qname(qname) with the cursor at start
WriteQname ==
    /\ enc.op = "qname" /\ enc.stage = "input"
    /\ enc' = [enc EXCEPT !.stage = "written",
                          !.w = write_qname(BytePacketBuffer_at(enc.start),
                                            enc.qname)]
    /\ UNCHANGED <<datagram, position, qn, qstart, dec>>
    /\ UNCHANGED server

\* buffer.seek(start) and buffer.read_qname(&mut out) on the written buffer
ReadQnameBack ==
    /\ enc.op = "qname" /\ enc.stage = "written" /\ enc.w.err = "None"
    /\ enc' = [enc EXCEPT !.stage = "read",
                          !.back = read_qname(Received(enc.w.bytes), enc.start)]
    /\ UNCHANGED <<datagram, position, qn, qstart, dec>>
    /\ UNCHANGED server

\* record.write(&mut buffer) with the cursor at start
WriteRecord ==
    /\ enc.op = "record" /\ enc.stage = "input"
    /\ enc' = [enc EXCEPT
                 !.stage = "written",
                 !.w = DnsRecord_write(BytePacketBuffer_at(enc.start), enc.record),
                 !.size = DnsRecord_write_result(
                              BytePacketBuffer_at(enc.start),
                              DnsRecord_write(BytePacketBuffer_at(enc.start),
                                              enc.record))]
    /\ UNCHANGED <<datagram, position, qn, qstart, dec>>
    /\ UNCHANGED server

\* packet.write(&mut buffer) on a new buffer
WritePacket ==
    /\ enc.op = "packet" /\ enc.stage = "input"
    /\ enc' = [enc EXCEPT !.stage = "written",
                          !.header = reconciled(enc.packet),
                          !.w = DnsPacket_write(BytePacketBuffer_new, enc.packet)]
    /\ UNCHANGED <<datagram, position, qn, qstart, dec>>
    /\ UNCHANGED server

\* buffer.seek(0) and DnsPacket::from_buffer(&mut buffer) on the written
\* buffer
ReadPacketBack ==
    /\ enc.op = "packet" /\ enc.stage = "written" /\ enc.w.err = "None"
    /\ enc' = [enc EXCEPT !.stage = "read",
                          !.back = from_buffer(Received(enc.w.bytes))]
    /\ UNCHANGED <<datagram, position, qn, qstart, dec>>
    /\ UNCHANGED server

NextEncode ==
    \/ WriteQname \/ ReadQnameBack
    \/ WriteRecord
    \/ WritePacket \/ ReadPacketBack

SpecEncode == InitEncode /\ [][NextEncode]_vars

\* C22: when the request was decoded and the resolution returned a result,
\* handle_query hands exactly one datagram to send_to, addressed to the
\* source of the request, also when the result came from a reply that used
\* name compression and when the response written is 512 bytes long.
C22_OneResponsePerResult ==
    /\ last.done
    /\ last.request.err = "None" /\ last.lookup.err = "None"
    => /\ Len(last.sent) = 1
       /\ last.sent[1].to = last.src

----------------------------------------------------------------------------
(* Claims about the writers, checked under SpecEncode.                     *)

\* C12: a message whose records are A, NS, CNAME, MX or AAAA and whose
\* encoding fits in the buffer is decoded from its encoding as itself, up to
\* its header counters, which are the lengths of its sections, and the case
\* of its names (the class of a question or record is kept neither by
\* DnsQuestion nor by DnsRecord), also when a question or a record is named
\* by the root.
C12_DecodeOfEncode ==
    LET m == enc.packet
        records == m.answers \o m.authorities \o m.resources
        Lowered(r) ==
            IF r.type \in {"Ns", "Cname", "Mx"}
            THEN [r EXCEPT !.domain = to_lowercase(@), !.host = to_lowercase(@)]
            ELSE [r EXCEPT !.domain = to_lowercase(@)]
        normalised ==
            [header |-> [m.header EXCEPT
                            !.questions = Len(m.questions),
                            !.answers = Len(m.answers),
                            !.authoritative_entries = Len(m.authorities),
                            !.resource_entries = Len(m.resources)],
             questions |-> [k \in DOMAIN m.questions |->
                               [m.questions[k] EXCEPT !.name = to_lowercase(@)]],
             answers |-> [k \in DOMAIN m.answers |-> Lowered(m.answers[k])],
             authorities |->
                 [k \in DOMAIN m.authorities |-> Lowered(m.authorities[k])],
             resources |->
                 [k \in DOMAIN m.resources |-> Lowered(m.resources[k])]]
    IN  /\ enc.op = "packet" /\ enc.stage = "read"
        /\ \A k \in DOMAIN records : records[k].type # "Unknown"
        => /\ enc.back.err = "None"
           /\ enc.back.val = normalised

\* C13: an ASCII name whose labels are at most 63 octets, empty labels
\* included (a trailing dot, two consecutive dots), is read back by
\* read_qname from where write_qname wrote it as itself in lower case.
C13_ReadOfWrite ==
    /\ enc.op = "qname" /\ enc.stage = "read"
    /\ \A k \in DOMAIN split(enc.qname) : Len(split(enc.qname)[k]) <= 63
    => /\ enc.back.err = "None"
       /\ enc.back.val = to_lowercase(enc.qname)

\* C14: write_qname of the empty string writes one byte, 0, and moves the
\* cursor by one.
C14_RootIsOneByte ==
    /\ enc.op = "qname" /\ enc.stage # "input"
    /\ enc.qname = <<>> /\ enc.w.err = "None"
    => /\ Len(enc.w.bytes) = enc.start + 1
       /\ enc.w.bytes[enc.start + 1] = 0

\* the big-endian u16 at offset at of the bytes written
Written_u16(bytes, at) == bytes[at + 1] * 256 + bytes[at + 2]

\* C15: whatever the header counters of a packet hold before
\* DnsPacket::write, the four counters it writes, and leaves in the header,
\* are the lengths of the four sections.
C15_CountersReconciled ==
    enc.op = "packet" /\ enc.stage # "input"
    => /\ enc.header.questions = Len(enc.packet.questions)
       /\ enc.header.answers = Len(enc.packet.answers)
       /\ enc.header.authoritative_entries = Len(enc.packet.authorities)
       /\ enc.header.resource_entries = Len(enc.packet.resources)
       /\ Len(enc.w.bytes) >= 12
       /\ Written_u16(enc.w.bytes, 4) = Len(enc.packet.questions)
       /\ Written_u16(enc.w.bytes, 6) = Len(enc.packet.answers)
       /\ Written_u16(enc.w.bytes, 8) = Len(enc.packet.authorities)
       /\ Written_u16(enc.w.bytes, 10) = Len(enc.packet.resources)

C15_Witness ==
    /\ enc.op = "packet" /\ enc.stage = "written" /\ enc.w.err = "None"
    /\ enc.packet.header.questions = 7
    /\ enc.packet.header.answers = 0
    /\ enc.packet.header.authoritative_entries = 65535
    /\ enc.packet.header.resource_entries = 3
    /\ Len(enc.packet.questions) = 1
    /\ Len(enc.packet.answers) = 2
    /\ Len(enc.packet.authorities) = 1
    /\ Len(enc.packet.resources) = 2

\* C19: for an NS, CNAME or MX record written without failing, RDLENGTH is
\* the number of bytes of RDATA written (the priority of an MX record
\* included), the cursor stays behind the RDATA when RDLENGTH is set, and
\* the value returned is the growth of the cursor over the whole record.
\* A name written without failing takes a length byte for each label, the
\* octets between its dots and the terminator; RDLENGTH lies behind the
\* owner, the type, the class and the ttl.
C19_RdlengthPatched ==
    LET r == enc.record
        name_len(name) == Len(name) + 2
        rdlength_at == enc.start + name_len(r.domain) + 8
        rdata_len == (IF r.type = "Mx" THEN 2 ELSE 0) + name_len(r.host)
    IN  /\ enc.op = "record" /\ enc.stage # "input"
        /\ r.type \in {"Ns", "Cname", "Mx"}
        /\ enc.w.err = "None"
        => /\ Written_u16(enc.w.bytes, rdlength_at) = rdata_len
           /\ Len(enc.w.bytes) = rdlength_at + 2 + rdata_len
           /\ enc.size = Ok(Len(enc.w.bytes) - enc.start)

\* the record b MX 10 mx.b written at 491: it ends at byte 511
C19_Witness ==
    /\ enc.op = "record" /\ enc.stage = "written"
    /\ enc.record = MX_record(name_b, 10, <<109, 120, 46, 98>>)
    /\ enc.start = 491
    /\ enc.w.err = "None"
    /\ Len(enc.w.bytes) = MAX_BUFFER_SIZE
    /\ enc.size = Ok(21)
    /\ Written_u16(enc.w.bytes, 502) = 8

\* C21: in every datagram DnsPacket::write produces, each of the four
\* counts of the header is the number of entries serialised in its section,
\* also when a section holds Unknown records. A question is always
\* serialised; a record is serialised when DnsRecord::write writes bytes
\* for it.
C21_CountsAreEntriesWritten ==
    LET serialised(records) ==
            Cardinality({ k \in DOMAIN records :
                            DnsRecord_write(BytePacketBuffer_new,
                                            records[k]).bytes # <<>> })
    IN  /\ enc.op = "packet" /\ enc.stage # "input"
        /\ enc.w.err = "None"
        => /\ Written_u16(enc.w.bytes, 4) = Len(enc.packet.questions)
           /\ Written_u16(enc.w.bytes, 6) = serialised(enc.packet.answers)
           /\ Written_u16(enc.w.bytes, 8) = serialised(enc.packet.authorities)
           /\ Written_u16(enc.w.bytes, 10) = serialised(enc.packet.resources)

----------------------------------------------------------------------------
(* Claims about the cursor and the ranges of the buffer, checked under     *)
(* SpecQname.                                                              *)

\* C17: when read_qname returns Ok, the cursor is just behind the
\* terminating zero of the name if no pointer was met, and two behind the
\* first pointer met if one was, however many pointers were followed; the
\* bytes of the buffer are as they were. NameInPlace(pos) is where the name
\* at pos stops in place: behind its zero byte, or two behind its first
\* pointer, or 0 when its labels run out of the buffer.
C17_CursorAfterName ==
    [][qn'.status = "None"
         => LET RECURSIVE NameInPlace(_)
                NameInPlace(pos) ==
                    IF pos >= MAX_BUFFER_SIZE THEN 0
                    ELSE IF buffer[pos] >= 192 THEN pos + 2
                    ELSE IF buffer[pos] = 0 THEN pos + 1
                    ELSE NameInPlace(pos + 1 + buffer[pos])
            IN  /\ position' = NameInPlace(qstart)
                /\ datagram' = datagram]_vars

\* a label, then a pointer, then two more pointers: the cursor is two behind
\* the first pointer
C17_Witness ==
    /\ qn.status = "None"
    /\ qstart = 1 /\ position = 6
    /\ buffer[1] = 2 /\ buffer[4] = 192
    /\ qn.jump_performed = 3

\* C18: get_range(start, len) returns the len bytes from start for every
\* range inside the buffer (start + len <= 512) and fails only for a range
\* that is not, so a label that ends at byte 511 is read. The ranges are
\* those of the labels read_qname is about to read.
C18_RangeInsideReadable ==
    LET start == qn.position + 1
        len == buffer[qn.position]
    IN  /\ qn.status = "run" /\ qn.jump_performed <= max_jumps
        /\ qn.position < MAX_BUFFER_SIZE
        /\ buffer[qn.position] \in 1..191
        => IF start + len <= MAX_BUFFER_SIZE
           THEN get_range(buffer, start, len)
                    = Ok([k \in 1..len |-> buffer[start + k - 1]])
           ELSE get_range(buffer, start, len).err = "EndOfBuffer"

----------------------------------------------------------------------------
(* The binary as src/main.rs has it: the loop of main calls the            *)
(* handle_query of main.rs, which differs from the one of lib.rs in the    *)
(* call it makes for the question: lookup() of main.rs, one query to a     *)
(* fixed server. The request lookup() writes (main.rs:17-27) and the       *)
(* response handle_query builds and sends (main.rs:41-80) are line for     *)
(* line those of lib.rs, lookup_request and respond. pc is "forward" while *)
(* lookup() of main.rs waits in recv_from.                                 *)

\* let server = ("8.8.8.8", 53)
main_server == <<<<8, 8, 8, 8>>, 53>>

\* lookup() of main.rs up to its recv_from: binds and sent say whether
\* UdpSocket::bind and send_to succeed, w is the request as written. Gives
\* [stack, result]: the call waiting, or no call and the Err returned.
main_lookup_sent(qname, qtype, w, binds, sent) ==
    IF ~binds THEN [stack |-> <<>>, result |-> Err("TransportError")]
    ELSE IF w.err # "None" THEN [stack |-> <<>>, result |-> Err(w.err)]
    ELSE IF ~sent THEN [stack |-> <<>>, result |-> Err("TransportError")]
    ELSE [stack |-> <<[qname |-> qname, qtype |-> qtype,
                       ns |-> main_server[1], response |-> DnsPacket_new]>>,
          result |-> Err("Pending")]

\* socket.recv_from(&mut req_buffer.buffer)? of main.rs fails
MainRecvFails ==
    /\ pc = "recv"
    /\ pc' = main_loop("TransportError")
    /\ last' = [done |-> TRUE, err |-> "TransportError",
                request |-> Err("TransportError"), src |-> "none",
                lookup |-> Err("NotCalled"), res_packet |-> DnsPacket_new,
                sent |-> <<>>, exchanges |-> 0]
    /\ datagram' = <<>>
    /\ src' = "none"
    /\ req_packet' = DnsPacket_new
    /\ reply' = <<>>
    /\ UNCHANGED <<stack, exchanges>>
    /\ UNCHANGED codec

\* lookup() has run to its recv_from, or has returned an Err before it
MainLookup(packet, question, from, sends, started) ==
    IF started.stack = <<>>
    THEN Returned(Ok(packet), from, started.result,
                  respond(packet.header.id, question, started.result,
                          from, sends),
                  0)
    ELSE /\ pc' = "forward"
         /\ stack' = started.stack
         /\ exchanges' = 1
         /\ last' = NotReturned

\* DnsPacket::from_buffer(&mut req_buffer)? of main.rs gave request, and
\* req_packet.questions.pop() gave question
MainDecoded(request, question, from, sends, binds, sent) ==
    IF request.err # "None"
    THEN /\ req_packet' = DnsPacket_new
         /\ Returned(Err(request.err), from, Err("NotCalled"),
                     [err |-> request.err, res_packet |-> DnsPacket_new,
                      sent |-> <<>>], 0)
    ELSE /\ req_packet' = request.val
         /\ IF question = <<>>
            THEN Returned(Ok(request.val), from, Err("NotCalled"),
                          respond(request.val.header.id, question,
                                  Err("NotCalled"), from, sends),
                          0)
            ELSE MainLookup(request.val, question, from, sends,
                            main_lookup_sent(
                                question[1].name, question[1].qtype,
                                lookup_request(question[1].name,
                                               question[1].qtype),
                                binds, sent))

\* handle_query of main.rs from its recv_from to the recv_from of lookup(),
\* or to its return when no query is sent
MainRecv ==
    /\ pc = "recv"
    /\ \E d \in RequestDatagrams, from \in {"client1", "client2"},
          sends \in BOOLEAN, binds \in BOOLEAN, sent \in BOOLEAN :
          /\ datagram' = d
          /\ src' = from
          /\ reply' = <<>>
          /\ MainDecoded(DecodedRequest[d],
                         IF DecodedRequest[d].err # "None"
                            \/ DecodedRequest[d].val.questions = <<>>
                         THEN <<>>
                         ELSE <<DecodedRequest[d].val.questions[
                                    Len(DecodedRequest[d].val.questions)]>>,
                         from, sends, binds, sent)
    /\ UNCHANGED codec

\* lookup() of main.rs returns from its recv_from and handle_query runs to
\* its end
MainReply ==
    /\ pc = "forward"
    /\ \E received \in UpstreamReplies, sends \in BOOLEAN :
          /\ reply' = received
          /\ Returned(Ok(req_packet), src, Decoded[received],
                      respond(req_packet.header.id,
                              <<req_packet.questions[Len(req_packet.questions)]>>,
                              Decoded[received], src, sends),
                      exchanges)
    /\ UNCHANGED <<datagram, src, req_packet>>
    /\ UNCHANGED codec

NextMain == MainRecvFails \/ MainRecv \/ MainReply

SpecMain == Init /\ [][NextMain]_vars

----------------------------------------------------------------------------
(* Claims about the listener and the servers queried, checked under        *)
(* SpecMain.                                                               *)

\* C16: the listener never stops serving: after handle_query returned, with
\* an Err or not, main is in the recv_from of the next handle_query, and no
\* datagram of a client and no reply of a server takes it out of its loop.
C16_ListenerKeepsServing ==
    /\ pc \in {"recv", "forward"}
    /\ last.done => pc = "recv"
    /\ last.err # "Panic"

\* handle_query returned an Err because the response could not be written:
\* the server answered with a record no write_qname writes
C16_Witness ==
    /\ pc = "recv"
    /\ last.done /\ last.err = "SingleLabelExceedsCharactersOfLength"
    /\ last.request.err = "None" /\ last.lookup.err = "None"
    /\ last.exchanges = 1
    /\ last.sent = <<>>

\* C20: the first query sent for the question of a client goes to port 53
\* of 198.41.0.4, and every later query of the resolution goes to port 53 of
\* 198.41.0.4, when it is the first of a nested lookup, or of an address
\* taken from an A record of the reply before it. The query is the one of
\* the lookup() that waits, of lib.rs or of main.rs; the addresses are
\* those of the A records among the answers and the additional records of
\* the reply received last.
C20_QueriesStartAtRoot ==
    LET top == stack[Len(stack)]
        queried == IF pc = "lookup" THEN lookup_server(top)
                   ELSE <<top.ns, main_server[2]>>
        glue == IF reply = <<>> \/ Decoded[reply].err # "None" THEN <<>>
                ELSE Decoded[reply].val.answers \o Decoded[reply].val.resources
        replied == { glue[k].addr : k \in { j \in DOMAIN glue :
                                              glue[j].type = "A" } }
    IN  pc \in {"lookup", "forward"} =>
            /\ queried[2] = 53
            /\ exchanges = 1 => queried[1] = root_ns
            /\ exchanges > 1 => queried[1] \in {root_ns} \cup replied

====
